---- MODULE Spec2Model ----
(***************************************************************************)
(* Model of openvqe/hamiltonian/hamiltonian_base.py:                       *)
(*   ParametersHamiltonian  - the configuration holding the name of the    *)
(*                            fermion-to-qubit transformation;             *)
(*   HamiltonianBase        - the base class whose __call__ validates the  *)
(*                            instance, selects a transformation by name   *)
(*                            and returns the qubit operator.              *)
(* A string is a sequence of one-character strings, so that str.upper()    *)
(* is computed character by character.  A value of the openfermion         *)
(* library is the term that built it, written in prefix form as a          *)
(* sequence of strings: the library is a collaborator whose arithmetic is  *)
(* not modelled, only which of its functions was applied to what.          *)
(***************************************************************************)
EXTENDS Integers, Sequences, FiniteSets, TLC

VARIABLES
    transformation, \* ParametersHamiltonian.transformation of self.parameters
    cls,            \* type(self).__name__
    sane,           \* whether verify() finds the instance sane
    accessor,       \* "base", or the Hamiltonian a subclass's accessor returns
    nq_overridden,  \* whether the subclass overrides n_qubits()
    methods,        \* names of the transformation methods the subclass defines
    last,           \* what the most recent __call__ did and how it ended
    prev,           \* the same for the __call__ before it
    ncalls,         \* number of __call__ invocations made so far
    direct,         \* how the most recent direct n_qubits() / accessor call ended
    query           \* answers of the most recent jordan_wigner()/bravyi_kitaev()

vars == <<transformation, cls, sane, accessor, nq_overridden, methods,
          last, prev, ncalls, direct, query>>

----------------------------------------------------------------------------
(* Strings and str.upper() *)

LowerCase == <<"a","b","c","d","e","f","g","h","i","j","k","l","m",
               "n","o","p","q","r","s","t","u","v","w","x","y","z">>
UpperCase == <<"A","B","C","D","E","F","G","H","I","J","K","L","M",
               "N","O","P","Q","R","S","T","U","V","W","X","Y","Z">>

\* str.upper() of one character: a cased lower-case letter becomes its
\* upper-case letter, every other character is kept.
UpperChar(c) ==
    IF \E i \in DOMAIN LowerCase : LowerCase[i] = c
    THEN UpperCase[CHOOSE i \in DOMAIN LowerCase : LowerCase[i] = c]
    ELSE c

\* self.transformation.upper()
upper(s) == [i \in DOMAIN s |-> UpperChar(s[i])]

\* The alias lists of lines 21 and 28.
JW_ALIASES ==
    { <<"J","W">>, <<"J","-","W">>,
      <<"J","O","R","D","A","N","-","W","I","G","N","E","R">> }
BK_ALIASES ==
    { <<"B","K">>, <<"B","-","K">>,
      <<"B","R","A","V","Y","I","-","K","I","T","A","E","V">> }

\* Mutants of the two predicates: the comparison without upper().
jordan_wigner_exact(t) == t \in JW_ALIASES
bravyi_kitaev_exact(t) == t \in BK_ALIASES

\* ParametersHamiltonian.jordan_wigner()
jordan_wigner(t) == upper(t) \in JW_ALIASES

\* ParametersHamiltonian.bravyi_kitaev()
bravyi_kitaev(t) == upper(t) \in BK_ALIASES

----------------------------------------------------------------------------
(* The names the model configures *)

MaxLen == 3

Jw          == <<"j","w">>
JW          == <<"J","W">>
J_W         == <<"J","-","W">>
JordanWigner == <<"J","o","r","d","a","n","-","W","i","g","n","e","r">>
Bk          == <<"b","k">>
BK          == <<"B","K">>
B_K         == <<"B","-","K">>
BravyiKitaev == <<"B","r","a","v","y","i","-","K","i","t","a","e","v">>
custom_transform ==
    <<"c","u","s","t","o","m","_","t","r","a","n","s","f","o","r","m">>
n_qubits_name   == <<"n","_","q","u","b","i","t","s">>
verify_name     == <<"v","e","r","i","f","y">>
parameters_name == <<"p","a","r","a","m","e","t","e","r","s">>
jordan_wigner_name ==
    <<"j","o","r","d","a","n","_","w","i","g","n","e","r">>
J_underscore_W  == <<"J","_","W">>
EmptyName       == <<>>

\* The spellings section 8 of the specification lists.
SpecJWSpellings == {JW, Jw, J_W, JordanWigner}
SpecBKSpellings == {BK, Bk, B_K, BravyiKitaev}

\* Names a Hamiltonian object is configured with in Spec: aliases of both
\* families, a custom method name, an inherited method, a data attribute,
\* and names that are no attribute at all.
ConfigNames ==
    { JW, Jw, JordanWigner, Bk, B_K,
      custom_transform, n_qubits_name, parameters_name,
      J_underscore_W, EmptyName }

\* Characters of the short names: both cases of the letters of the short
\* aliases, the hyphen, and a character upper() leaves alone.
ShortAlphabet == {"j","J","w","W","b","B","k","K","-","_"}

RECURSIVE SeqsUpTo(_, _)
SeqsUpTo(S, n) ==
    IF n = 0 THEN {<<>>}
    ELSE LET shorter == SeqsUpTo(S, n - 1)
         IN  shorter \cup { Append(s, c) : s \in shorter, c \in S }

\* Names the two predicates are asked about in SpecNames.
AllNames ==
    ConfigNames \cup SpecJWSpellings \cup SpecBKSpellings \cup
    { verify_name, jordan_wigner_name } \cup SeqsUpTo(ShortAlphabet, MaxLen)

----------------------------------------------------------------------------
(* The openfermion library and the subclass's methods, as terms *)

\* openfermion.get_fermion_operator(H)
get_fermion_operator(h) == <<"get_fermion_operator">> \o h

\* openfermion.jordan_wigner(op)
openfermion_jordan_wigner(op) == <<"jordan_wigner">> \o op

\* openfermion.bravyi_kitaev(op)
openfermion_bravyi_kitaev(op) == <<"bravyi_kitaev">> \o op

\* The Hamiltonians a subclass's accessor returns.
Hamiltonians == {"H1", "H2"}

\* Names of the transformation methods a subclass may define.  JW and bk
\* are also aliases of the built-in transformations.
CustomMethodNames == {custom_transform, JW, Bk}

\* The method sets of the subclasses the model constructs.
MethodSets == { {}, {custom_transform}, {JW, Bk}, CustomMethodNames }

\* Callables every instance inherits from HamiltonianBase, each taking self
\* alone.
InheritedMethods == {n_qubits_name, verify_name}

\* Attributes of an instance that are not callable.
DataAttributes == {parameters_name}

----------------------------------------------------------------------------
(* Outcomes *)

NoErr == [parameter_name |-> "", parameter_class |-> "",
          parameter_value |-> <<>>, called_from |-> ""]

Returned(v, tr) == [kind |-> "value", val |-> v, err |-> NoErr, trace |-> tr]
Raised(k, tr)   == [kind |-> k, val |-> <<>>, err |-> NoErr, trace |-> tr]

NoCall == [name |-> <<>>, kind |-> "none", val |-> <<>>, err |-> NoErr,
           trace |-> <<>>]
NoDirect == [op |-> "none", kind |-> "none"]
NoQuery  == [asked |-> FALSE, jw |-> FALSE, bk |-> FALSE]

----------------------------------------------------------------------------
(* HamiltonianBase *)

\* Mutant: n_qubits() of the base returning a value.
n_qubits_returns(overridden) == "value"

\* HamiltonianBase.n_qubits(): the base raises OpenVQEException; a subclass
\* that overrides it returns its count.
n_qubits(overridden) ==
    IF overridden THEN "value" ELSE "OpenVQEException"

\* HamiltonianBase.get_fermionic_hamiltonian(): the base raises
\* NotImplementedError; an overriding subclass returns its Hamiltonian.
get_fermionic_hamiltonian(acc, tr) ==
    IF acc = "base"
    THEN Raised("NotImplementedError", Append(tr, "get_fermionic_hamiltonian"))
    ELSE Returned(<<acc>>, Append(tr, "get_fermionic_hamiltonian"))

\* HamiltonianBase.verify(): "true if sane, raises exception if not".  Whether
\* an instance is sane is decided by the check a derived class supplies, so
\* it is an input of the model; __call__ discards the value returned, and
\* "ValidationError" names whatever exception the check raises.
verify(s) == IF s THEN "True" ELSE "raise"

\* getattr(self, name, None): what kind of attribute the name finds.
getattr(ms, name) ==
    IF name \in ms THEN "custom"
    ELSE IF name \in InheritedMethods THEN "inherited"
    ELSE IF name \in DataAttributes THEN "data"
    ELSE "None"

\* Mutant: "is not None" in place of callable().
callable_not_none(a) == a # "None"

\* callable(transform_method)
callable(a) == a \in {"custom", "inherited"}

\* transform_method(H): a subclass's transformation method returns its own
\* value for H; an inherited method takes self alone, and a data attribute
\* cannot be called: both raise TypeError.
transform_method(a, name, arg, tr) ==
    IF a = "custom"
    THEN Returned(<<"self.">> \o name \o <<"(">> \o arg \o <<")">>,
                  Append(tr, "transform_method"))
    ELSE Raised("TypeError", Append(tr, "transform_method"))

\* Mutant: line 47 without the conversion to a fermion operator.
JordanWignerBranch_unconverted(acc, tr) ==
    LET h == get_fermionic_hamiltonian(acc, tr)
    IN  IF h.kind # "value" THEN h
        ELSE Returned(openfermion_jordan_wigner(h.val),
                      h.trace \o <<"openfermion.jordan_wigner">>)

\* Line 47.
JordanWignerBranch(acc, tr) ==
    LET h == get_fermionic_hamiltonian(acc, tr)
    IN  IF h.kind # "value" THEN h
        ELSE Returned(openfermion_jordan_wigner(get_fermion_operator(h.val)),
                      h.trace \o <<"get_fermion_operator",
                                   "openfermion.jordan_wigner">>)

\* Line 49.
BravyiKitaevBranch(acc, tr) ==
    LET h == get_fermionic_hamiltonian(acc, tr)
    IN  IF h.kind # "value" THEN h
        ELSE Returned(openfermion_bravyi_kitaev(get_fermion_operator(h.val)),
                      h.trace \o <<"get_fermion_operator",
                                   "openfermion.bravyi_kitaev">>)

\* Lines 54-56.
OpenVQEParameterError(t, c, tr) ==
    [kind |-> "OpenVQEParameterError", val |-> <<>>,
     err |-> [parameter_name |-> "transformation",
              parameter_class |-> "ParametersHamiltonian",
              parameter_value |-> t,
              called_from |-> c \o ".__call__()"],
     trace |-> tr]

\* Mutant: the custom method handed the converted fermion operator.
CustomBranch_converted(t, c, acc, ms, tr) ==
    LET a == getattr(ms, t)
        tr1 == Append(tr, "getattr")
    IN  IF callable(a)
        THEN LET h == get_fermionic_hamiltonian(acc, tr1)
             IN  IF h.kind # "value" THEN h
                 ELSE transform_method(a, t, get_fermion_operator(h.val),
                                       h.trace)
        ELSE OpenVQEParameterError(t, c, tr1)

\* Lines 50-56.
CustomBranch(t, c, acc, ms, tr) ==
    LET a == getattr(ms, t)
        tr1 == Append(tr, "getattr")
    IN  IF callable(a)
        THEN LET h == get_fermionic_hamiltonian(acc, tr1)
             IN  IF h.kind # "value" THEN h
                 ELSE transform_method(a, t, h.val, h.trace)
        ELSE OpenVQEParameterError(t, c, tr1)

\* Mutant: the accessor invoked before the name is examined.
Dispatch_accessor_first(t, c, acc, ms, tr) ==
    LET h == get_fermionic_hamiltonian(acc, tr)
    IN  IF h.kind # "value" THEN h
        ELSE IF jordan_wigner(t)
        THEN JordanWignerBranch(acc, Append(tr, "jordan_wigner()"))
        ELSE IF bravyi_kitaev(t)
        THEN BravyiKitaevBranch(acc, tr \o <<"jordan_wigner()",
                                             "bravyi_kitaev()">>)
        ELSE CustomBranch(t, c, acc, ms, tr \o <<"jordan_wigner()",
                                                 "bravyi_kitaev()">>)

\* Mutant: an unrecognised name falls back to Jordan-Wigner.
Dispatch_default_jw(t, c, acc, ms, tr) ==
    IF bravyi_kitaev(t)
    THEN BravyiKitaevBranch(acc, tr \o <<"jordan_wigner()",
                                         "bravyi_kitaev()">>)
    ELSE JordanWignerBranch(acc, Append(tr, "jordan_wigner()"))

\* Mutant: the by-name lookup tried before the alias predicates.
Dispatch_lookup_first(t, c, acc, ms, tr) ==
    IF callable(getattr(ms, t))
    THEN CustomBranch(t, c, acc, ms, tr)
    ELSE IF jordan_wigner(t)
    THEN JordanWignerBranch(acc, Append(tr, "jordan_wigner()"))
    ELSE IF bravyi_kitaev(t)
    THEN BravyiKitaevBranch(acc, tr \o <<"jordan_wigner()",
                                         "bravyi_kitaev()">>)
    ELSE CustomBranch(t, c, acc, ms, tr \o <<"jordan_wigner()",
                                             "bravyi_kitaev()">>)

\* Lines 46-56: the if / elif / else on the two predicates.
Dispatch(t, c, acc, ms, tr) ==
    IF jordan_wigner(t)
    THEN JordanWignerBranch(acc, Append(tr, "jordan_wigner()"))
    ELSE IF bravyi_kitaev(t)
    THEN BravyiKitaevBranch(acc, tr \o <<"jordan_wigner()",
                                         "bravyi_kitaev()">>)
    ELSE CustomBranch(t, c, acc, ms, tr \o <<"jordan_wigner()",
                                             "bravyi_kitaev()">>)

\* Mutant: __call__ without line 44.
call_unverified(t, c, s, acc, ms) == Dispatch(t, c, acc, ms, <<>>)

\* HamiltonianBase.__call__(): line 44, then lines 46-56.
call(t, c, s, acc, ms) ==
    IF verify(s) = "raise"
    THEN Raised("ValidationError", <<"verify">>)
    ELSE Dispatch(t, c, acc, ms, <<"verify">>)

\* The record of a call made with name t.
Record(t, o) == [name |-> t, kind |-> o.kind, val |-> o.val, err |-> o.err,
                 trace |-> o.trace]

----------------------------------------------------------------------------
(* The state machine *)

MaxCalls == 2

BaseName    == "HamiltonianBase"
DerivedName == "DerivedHamiltonian"

\* The state after construction.  ParametersHamiltonian is a plain dataclass
\* with one str field: it is constructed with any name.  An instance of
\* HamiltonianBase itself overrides nothing; a subclass may override the
\* accessor, n_qubits() and verify(), and may define transformation methods.
InitObject ==
    /\ cls \in {BaseName, DerivedName}
    /\ sane \in BOOLEAN
    /\ accessor \in {"base"} \cup Hamiltonians
    /\ nq_overridden \in BOOLEAN
    /\ methods \in MethodSets
    /\ cls = BaseName =>
          accessor = "base" /\ ~nq_overridden /\ methods = {}
    /\ last = NoCall
    /\ prev = NoCall
    /\ ncalls = 0
    /\ direct = NoDirect
    /\ query = NoQuery

Init ==
    /\ transformation \in ConfigNames
    /\ InitObject

\* parameters.transformation = n: the field of the dataclass is assignable.
SetTransformation ==
    \E n \in ConfigNames :
        /\ n # transformation
        /\ transformation' = n
        /\ UNCHANGED <<cls, sane, accessor, nq_overridden, methods,
                       last, prev, ncalls, direct, query>>

\* Mutant: __call__ storing the upper-cased name back in the configuration.
CallAction_normalising ==
    /\ ncalls < MaxCalls
    /\ last' = Record(transformation,
                      call(transformation, cls, sane, accessor, methods))
    /\ prev' = last
    /\ ncalls' = ncalls + 1
    /\ transformation' = upper(transformation)
    /\ UNCHANGED <<cls, sane, accessor, nq_overridden, methods,
                   direct, query>>

\* self(): HamiltonianBase.__call__.  It assigns nothing.
CallAction ==
    /\ ncalls < MaxCalls
    /\ last' = Record(transformation,
                      call(transformation, cls, sane, accessor, methods))
    /\ prev' = last
    /\ ncalls' = ncalls + 1
    /\ UNCHANGED <<transformation, cls, sane, accessor, nq_overridden,
                   methods, direct, query>>

\* self.n_qubits(), called directly.
NQubitsAction ==
    /\ direct' = [op |-> "n_qubits", kind |-> n_qubits(nq_overridden)]
    /\ UNCHANGED <<transformation, cls, sane, accessor, nq_overridden,
                   methods, last, prev, ncalls, query>>

\* self.get_fermionic_hamiltonian(), called directly.
GetFermionicHamiltonianAction ==
    /\ direct' = [op |-> "get_fermionic_hamiltonian",
                  kind |-> get_fermionic_hamiltonian(accessor, <<>>).kind]
    /\ UNCHANGED <<transformation, cls, sane, accessor, nq_overridden,
                   methods, last, prev, ncalls, query>>

\* parameters.jordan_wigner() and parameters.bravyi_kitaev().
QueryAction ==
    /\ query' = [asked |-> TRUE,
                 jw |-> jordan_wigner(transformation),
                 bk |-> bravyi_kitaev(transformation)]
    /\ UNCHANGED <<transformation, cls, sane, accessor, nq_overridden,
                   methods, last, prev, ncalls, direct>>

Next ==
    \/ SetTransformation
    \/ CallAction
    \/ NQubitsAction
    \/ GetFermionicHamiltonianAction

Spec == Init /\ [][Next]_vars

\* The two predicates alone, asked about every name of AllNames.
InitNames ==
    /\ transformation \in AllNames
    /\ InitObject
    /\ cls = BaseName
    /\ sane

NextNames == QueryAction

SpecNames == InitNames /\ [][NextNames]_vars

----------------------------------------------------------------------------
(* What the claims speak of, stated without the model's own operators *)

\* s equals alias a up to the case of its letters.
EqualIgnoringCase(s, a) ==
    /\ Len(s) = Len(a)
    /\ \A i \in 1..Len(a) :
          \/ s[i] = a[i]
          \/ \E k \in DOMAIN UpperCase :
                a[i] = UpperCase[k] /\ s[i] = LowerCase[k]

ClaimedJWAliases ==
    { <<"J","W">>, <<"J","-","W">>,
      <<"J","O","R","D","A","N","-","W","I","G","N","E","R">> }
ClaimedBKAliases ==
    { <<"B","K">>, <<"B","-","K">>,
      <<"B","R","A","V","Y","I","-","K","I","T","A","E","V">> }

IsJWAlias(s) == \E a \in ClaimedJWAliases : EqualIgnoringCase(s, a)
IsBKAlias(s) == \E a \in ClaimedBKAliases : EqualIgnoringCase(s, a)
IsAlias(s)   == IsJWAlias(s) \/ IsBKAlias(s)

\* The name is that of a method of the object: one its class defines or one
\* it inherits from HamiltonianBase.
IsMethodOnObject(s) == s \in methods \cup InheritedMethods

Has(tr, e)   == \E i \in DOMAIN tr : tr[i] = e
Count(tr, e) == Cardinality({ i \in DOMAIN tr : tr[i] = e })
Called       == last.kind # "none"

\* The term the library yields for Hamiltonian h under transform T.
LibraryResult(T, h) == <<T, "get_fermion_operator", h>>

----------------------------------------------------------------------------
(* Claims *)

\* C1: for every name s, jordan_wigner() is true iff s upper-cased is one of
\* JW, J-W, JORDAN-WIGNER, and bravyi_kitaev() is true iff s upper-cased is
\* one of BK, B-K, BRAVYI-KITAEV; the spellings JW, jw, J-W, Jordan-Wigner
\* are Jordan-Wigner, BK, bk, B-K, Bravyi-Kitaev are Bravyi-Kitaev, and
\* every other name is neither.
C1_AliasRecognition ==
    query.asked =>
        /\ query.jw = IsJWAlias(transformation)
        /\ query.bk = IsBKAlias(transformation)
        /\ transformation \in SpecJWSpellings => query.jw /\ ~query.bk
        /\ transformation \in SpecBKSpellings => query.bk /\ ~query.jw

C1_Witness ==
    /\ query.asked
    /\ transformation = JordanWigner
    /\ query.jw
    /\ ~query.bk

\* C2 as stated: for any configured name that is no alias and no method of
\* the object, __call__ raises the unknown-transformation parameter error.
C2_Original ==
    (Called /\ ~IsAlias(last.name) /\ ~IsMethodOnObject(last.name))
        => last.kind = "OpenVQEParameterError"

\* C2, amended: on an instance that passes verify(), for any configured name
\* that is no alias and no method of the object, __call__ raises
\* OpenVQEParameterError carrying the parameter name "transformation", the
\* type of the configuration, the offending value and the calling context,
\* and returns no operator.
C2_UnknownNameRaises ==
    (Called /\ sane /\ ~IsAlias(last.name) /\ ~IsMethodOnObject(last.name))
        => /\ last.kind = "OpenVQEParameterError"
           /\ last.val = <<>>
           /\ last.err.parameter_name = "transformation"
           /\ last.err.parameter_class = "ParametersHamiltonian"
           /\ last.err.parameter_value = last.name
           /\ last.err.called_from = cls \o ".__call__()"
           /\ ~Has(last.trace, "get_fermionic_hamiltonian")

C2_Witness ==
    /\ last.kind = "OpenVQEParameterError"
    /\ last.name = parameters_name
    /\ cls = DerivedName
    /\ accessor \in Hamiltonians

\* C3 as stated: on the unmodified base, n_qubits() and
\* get_fermionic_hamiltonian() both raise the not-implemented error, the
\* same error kind.
C3_Original ==
    (cls = BaseName /\ direct.op # "none")
        => direct.kind = "NotImplementedError"

\* C3, amended: on the unmodified base both operations fail on every
\* invocation and never return a value; n_qubits() raises OpenVQEException
\* and get_fermionic_hamiltonian() raises NotImplementedError.
C3_BaseOperationsRaise ==
    cls = BaseName =>
        /\ direct.op = "n_qubits" => direct.kind = "OpenVQEException"
        /\ direct.op = "get_fermionic_hamiltonian"
              => direct.kind = "NotImplementedError"

C3_Witness ==
    /\ cls = BaseName
    /\ direct.op = "n_qubits"
    /\ direct.kind = "OpenVQEException"

\* C4: when verify() passes and the accessor returns H, __call__ returns
\* exactly jordan_wigner(get_fermion_operator(H)) for a Jordan-Wigner alias
\* and bravyi_kitaev(get_fermion_operator(H)) for a Bravyi-Kitaev alias, and
\* applies no other transform.
C4_BuiltinDelegation ==
    (Called /\ sane /\ accessor \in Hamiltonians) =>
        /\ IsJWAlias(last.name) =>
              /\ last.kind = "value"
              /\ last.val = LibraryResult("jordan_wigner", accessor)
              /\ Count(last.trace, "openfermion.jordan_wigner") = 1
              /\ ~Has(last.trace, "openfermion.bravyi_kitaev")
              /\ ~Has(last.trace, "transform_method")
        /\ IsBKAlias(last.name) =>
              /\ last.kind = "value"
              /\ last.val = LibraryResult("bravyi_kitaev", accessor)
              /\ Count(last.trace, "openfermion.bravyi_kitaev") = 1
              /\ ~Has(last.trace, "openfermion.jordan_wigner")
              /\ ~Has(last.trace, "transform_method")

C4_Witness ==
    /\ last.kind = "value"
    /\ last.name = JordanWigner
    /\ accessor = "H2"
    /\ last.val = <<"jordan_wigner", "get_fermion_operator", "H2">>

\* C5 as stated: for a name that is no alias and that a method of the
\* subclass bears, __call__ invokes that method once with the H the accessor
\* returns and returns exactly the method's value.
C5_Original ==
    (Called /\ ~IsAlias(last.name) /\ last.name \in methods
            /\ accessor \in Hamiltonians)
        => /\ last.kind = "value"
           /\ Count(last.trace, "transform_method") = 1
           /\ last.val = <<"self.">> \o last.name \o <<"(", accessor, ")">>

\* C5, amended: the same on an instance that passes verify().
C5_CustomMethod ==
    (Called /\ sane /\ ~IsAlias(last.name) /\ last.name \in methods
            /\ accessor \in Hamiltonians)
        => /\ last.kind = "value"
           /\ Count(last.trace, "transform_method") = 1
           /\ Count(last.trace, "get_fermionic_hamiltonian") = 1
           /\ ~Has(last.trace, "get_fermion_operator")
           /\ last.val = <<"self.">> \o last.name \o <<"(", accessor, ")">>

C5_Witness ==
    /\ last.kind = "value"
    /\ last.name = custom_transform
    /\ accessor = "H1"
    /\ Has(last.trace, "transform_method")

C7_ValidationFirst ==
    Called =>
        /\ Head(last.trace) = "verify"
        /\ Count(last.trace, "verify") = 1
        /\ ~sane => /\ last.kind = "ValidationError"
                    /\ last.val = <<>>
                    /\ last.trace = <<"verify">>

C7_Witness ==
    /\ ~sane
    /\ last.kind = "ValidationError"
    /\ last.name = custom_transform
    /\ custom_transform \in methods
    /\ accessor \in Hamiltonians

\* C8 as stated: the accessor is invoked before the name is examined, so
\* with the accessor not overridden a call that passes validation fails with
\* the not-implemented error for every name.
C8_Original ==
    (Called /\ sane /\ accessor = "base")
        => last.kind = "NotImplementedError"

\* The position of the first event e of a trace, 0 when there is none.
First(tr, e) ==
    IF Has(tr, e) THEN CHOOSE i \in DOMAIN tr :
                           tr[i] = e /\ \A j \in 1..(i - 1) : tr[j] # e
    ELSE 0

\* C8, amended: every call validates, then examines the name, and invokes
\* the accessor only inside the branch the name selects; with the accessor
\* not overridden a call that passes validation fails with the
\* not-implemented error when the name is an alias or names a callable of
\* the object, and with the unknown-transformation error otherwise.
C8_NameExaminedBeforeAccessor ==
    Called =>
        /\ Head(last.trace) = "verify"
        /\ Has(last.trace, "get_fermionic_hamiltonian") =>
              /\ Has(last.trace, "jordan_wigner()")
              /\ First(last.trace, "jordan_wigner()")
                    < First(last.trace, "get_fermionic_hamiltonian")
        /\ (sane /\ accessor = "base") =>
              IF IsAlias(last.name) \/ IsMethodOnObject(last.name)
              THEN last.kind = "NotImplementedError"
              ELSE last.kind = "OpenVQEParameterError"

C8_Witness ==
    /\ sane
    /\ accessor = "base"
    /\ last.name = J_underscore_W
    /\ last.kind = "OpenVQEParameterError"

\* C9 as stated: in every reachable state the configured identifier is an
\* alias or the name of a method of the owning object.
C9_Original ==
    IsAlias(transformation) \/ IsMethodOnObject(transformation)

\* C9, amended: the configuration accepts any name; only a call checks it:
\* __call__ returns an operator only when the name it was made with is an
\* alias or the name of a method of the object.
C9_ValueOnlyForValidName ==
    last.kind = "value"
        => IsAlias(last.name) \/ IsMethodOnObject(last.name)

C9_Witness ==
    /\ last.kind = "value"
    /\ last.name = custom_transform
    /\ ~IsAlias(transformation)
    /\ ~IsMethodOnObject(transformation)

\* C10: an alias always selects the library transform, Jordan-Wigner being
\* tested before Bravyi-Kitaev; no method is looked up or invoked by name,
\* even when the subclass defines one of exactly that name; the lookup
\* happens only when both predicates are false.
C10_AliasPrecedence ==
    Called =>
        /\ IsAlias(last.name) =>
              /\ ~Has(last.trace, "getattr")
              /\ ~Has(last.trace, "transform_method")
              /\ last.kind = "value" =>
                    last.val \in { LibraryResult("jordan_wigner", accessor),
                                   LibraryResult("bravyi_kitaev", accessor) }
        /\ IsJWAlias(last.name) => ~Has(last.trace, "bravyi_kitaev()")
        /\ Has(last.trace, "getattr") =>
              /\ ~IsAlias(last.name)
              /\ First(last.trace, "jordan_wigner()") # 0
              /\ First(last.trace, "jordan_wigner()")
                    < First(last.trace, "bravyi_kitaev()")
              /\ First(last.trace, "bravyi_kitaev()")
                    < First(last.trace, "getattr")

C10_Witness ==
    /\ last.kind = "value"
    /\ last.name = JW
    /\ JW \in methods
    /\ last.val = <<"jordan_wigner", "get_fermion_operator", accessor>>

====
